---- MODULE Spec2Model ----
(***************************************************************************)
(* The gemini-cli-mcp adapter (src/main.rs): two tool handlers,            *)
(* gemini_prompt and gemini_config, and run_gemini_command, which spawns   *)
(* the external `gemini` binary, closes its stdin, waits for its output    *)
(* and maps the exit status to Ok(trimmed stdout) or an error.             *)
(*                                                                         *)
(* Text is a sequence of tokens: a token is one decoded character or one   *)
(* fragment of a string literal of the source.  Bytes are named by their   *)
(* hexadecimal value.  Option<T> is a sequence of length at most one.      *)
(***************************************************************************)
EXTENDS Integers, Sequences, FiniteSets, TLC

\* ------------------------------------------------------------- bounds ----
\* Number of tool calls the protocol runtime dispatches (they may overlap).
MaxCalls == 2

\* Total number of bytes a child writes to its stdout and stderr pipes.
MaxBytes == 4

Calls == 1..MaxCalls

\* ------------------------------------------------------------ Option ----
None == <<>>

Some(v) == <<v>>

IsSome(o) == o # <<>>

OptionOf(S) == {None} \cup {Some(v) : v \in S}

\* --------------------------------------------------- bytes and text ----
\* 0x20 (space), 0x61 ('a'), 0xFF (never valid in UTF-8).
Bytes == {"20", "61", "FF"}

ByteStrings(n) == UNION {[1..k -> Bytes] : k \in 0..n}

\* String::from_utf8_lossy on one byte of Bytes: ASCII decodes to itself,
\* every 0xFF becomes one U+FFFD REPLACEMENT CHARACTER.
DecodeByte(b) == CASE b = "20" -> " "
                   [] b = "61" -> "a"
                   [] OTHER -> "U+FFFD"

from_utf8_lossy(bs) == [i \in 1..Len(bs) |-> DecodeByte(bs[i])]

\* char::is_whitespace on the characters a Text token can be.
is_whitespace(ch) == ch \in {" ", "\t", "\n", "\r", "\f"}

RECURSIVE trim_start(_)
trim_start(s) == IF s # <<>> /\ is_whitespace(Head(s)) THEN trim_start(Tail(s)) ELSE s

RECURSIVE trim_end(_)
trim_end(s) == IF s # <<>> /\ is_whitespace(s[Len(s)])
               THEN trim_end(SubSeq(s, 1, Len(s) - 1))
               ELSE s

trim_start_only(s) == trim_start(s)

\* str::trim
trim(s) == trim_end(trim_start(s))

\* str::contains on Text.
Contains(s, sub) == \E i \in 0..(Len(s) - Len(sub)) : SubSeq(s, i + 1, i + Len(sub)) = sub

\* ---------------------------------------------------------- requests ----
Prompts == {"p1", "p2"}

Models == {"gemini-2.5-flash"}

MaxTokensValues == {256}

Temperatures == {"0.7"}

ApiKeys == {"secret", "hunter2"}

\* GeminiPromptArgs, as the protocol runtime deserialises them.
GeminiPromptArgs(tokens, temps) ==
    [prompt : Prompts, model : OptionOf(Models),
     max_tokens : OptionOf(tokens), temperature : OptionOf(temps)]

\* GeminiConfigArgs
GeminiConfigArgs == [api_key : OptionOf(ApiKeys)]

\* The calls of the concurrent specification leave the two ignored sampling
\* parameters out; the one-call specification draws all four fields.
ConcPromptArgs == GeminiPromptArgs({}, {})

AllPromptArgs == GeminiPromptArgs(MaxTokensValues, Temperatures)

\* The calls of the fair specification: one prompt, no model.
FairPromptArgs == {a \in ConcPromptArgs : a.prompt = "p1" /\ a.model = None}

\* GOOGLE_CLOUD_PROJECT in the adapter's own environment.
Projects == {"my-project"}

\* ------------------------------------------------- the external tool ----
ExitCodes == {0, 1, 2}

\* Everything a child can do before it exits: an exit code and the bytes it
\* wrote to its two pipes.
ToolRuns(n) ==
    {r \in [code : ExitCodes, stdout : ByteStrings(n), stderr : ByteStrings(n)] :
        Len(r.stdout) + Len(r.stderr) <= n}

\* Stand-in tool of the concurrent specification: two fixed runs.
FakeRuns ==
    {[code |-> 0, stdout |-> <<"20", "61">>, stderr |-> <<"61">>],
     [code |-> 1, stdout |-> <<"61">>, stderr |-> <<"20">>]}

AllRuns == ToolRuns(MaxBytes)

\* io::Error of a failed spawn (ENOENT, EACCES) and of a failed wait.
SpawnOsErrors == {<<"No such file or directory (os error 2)">>,
                  <<"Permission denied (os error 13)">>}

WaitOsErrors == {<<"Broken pipe (os error 32)">>}

\* ------------------------------------------------ results and errors ----
\* anyhow::Result<String>: Ok(text), or an error chain, outermost context first.
Ok(v) == [ok |-> TRUE, value |-> v]

Err(chain) == [ok |-> FALSE, chain |-> chain]

\* anyhow::Error's Display ({}): the outermost message only, not its causes.
to_string(chain) == Head(chain)

SpawnFailedMsgCopied == <<"Gemini command failed: ">>

SpawnFailedMsg == <<"Failed to spawn gemini command">>

WaitFailedMsg == <<"Failed to wait for gemini command">>

CommandFailedPrefix == <<"Gemini command failed: ">>

\* What the protocol runtime sends back for a handler's Result<String, McpError>.
TextResponse(t) == [kind |-> "text", text |-> t]

\* McpError::internal_error(message, None)
internal_error(msg) == [kind |-> "error", code |-> "internal_error", message |-> msg, data |-> None]

\* .map_err(|e| McpError::internal_error(e.to_string(), None))
map_err(res) == IF res.ok THEN TextResponse(res.value) ELSE internal_error(to_string(res.chain))

\* -------------------------------------------------- pure handler parts ----
BuildArgsForwarding(prompt, model, max_tokens, temperature) ==
    <<"--prompt", prompt>>
        \o (IF IsSome(model) THEN <<"--model", model[1]>> ELSE <<>>)
        \o (IF IsSome(max_tokens) THEN <<"--max-tokens", ToString(max_tokens[1])>> ELSE <<>>)
        \o (IF IsSome(temperature) THEN <<"--temperature", temperature[1]>> ELSE <<>>)

\* cmd_args of gemini_prompt
BuildArgs(prompt, model, max_tokens, temperature) ==
    <<"--prompt", prompt>> \o (IF IsSome(model) THEN <<"--model", model[1]>> ELSE <<>>)

CommandResultPartial(output) ==
    LET stdout == trim(from_utf8_lossy(output.stdout))
        stderr == trim(from_utf8_lossy(output.stderr))
    IN  IF output.code = 0 \/ stdout # <<>>
        THEN Ok(stdout)
        ELSE Err(<<CommandFailedPrefix \o stderr>>)

\* run_gemini_command from the Output of wait_with_output on.
CommandResult(output) ==
    LET stdout == trim(from_utf8_lossy(output.stdout))
        stderr == trim(from_utf8_lossy(output.stderr))
    IN  IF output.code = 0
        THEN Ok(stdout)
        ELSE Err(<<CommandFailedPrefix \o stderr>>)

GeminiConfigTextEcho(api_key) ==
    IF IsSome(api_key)
    THEN <<"Note: Gemini API key ", api_key[1], " should be set via ", "GOOGLE_API_KEY",
           " environment variable">>
    ELSE <<"Gemini CLI configuration:\n- API key: Set via ", "GOOGLE_API_KEY",
           " environment variable\n- Model: Use ", "--model", " flag (default: gemini-2.5-pro)">>

\* The two string literals of gemini_config.
GeminiConfigText(api_key) ==
    IF IsSome(api_key)
    THEN <<"Note: Gemini API key should be set via ", "GOOGLE_API_KEY",
           " environment variable">>
    ELSE <<"Gemini CLI configuration:\n- API key: Set via ", "GOOGLE_API_KEY",
           " environment variable\n- Model: Use ", "--model", " flag (default: gemini-2.5-pro)">>

\* ------------------------------------------------------------- state ----
VARIABLES
    env,        \* GOOGLE_CLOUD_PROJECT of the adapter process (an Option)
    pc,         \* position of each call's handler
    call,       \* the decoded call each handler was dispatched with
    procs,      \* the children spawned so far; a child's pid is its index
    child,      \* the pid each call's handler holds (0: none)
    attempts,   \* how many times each call's handler called spawn()
    output,     \* the Output wait_with_output returned to each call
    result,     \* what run_gemini_command returned to each call
    response    \* the responses handed back to the protocol runtime, per call

vars == <<env, pc, call, procs, child, attempts, output, result, response>>

\* A freshly spawned child: three pipes, stdin still held by the adapter.
NewChild(args, project) ==
    [args |-> args,
     env |-> IF IsSome(project) THEN {<<"GOOGLE_CLOUD_PROJECT", project[1]>>} ELSE {},
     stdin |-> "open", stdin_data |-> <<>>,
     exit |-> None, stdout |-> <<>>, stderr |-> <<>>]

DropStdinLeak(p) == p

\* drop(stdin): the write end of the child's stdin pipe is closed.
DropStdin(p) == [p EXCEPT !.stdin = "closed"]

Init(projects) ==
    /\ env \in projects
    /\ pc = [c \in Calls |-> "idle"]
    /\ call = [c \in Calls |-> None]
    /\ procs = <<>>
    /\ child = [c \in Calls |-> 0]
    /\ attempts = [c \in Calls |-> 0]
    /\ output = [c \in Calls |-> None]
    /\ result = [c \in Calls |-> None]
    /\ response = [c \in Calls |-> <<>>]

\* ----------------------------------------------------------- actions ----
\* gemini_config: no await, no subprocess, one response.
GeminiConfig(c) ==
    /\ pc[c] = "idle"
    /\ \E a \in GeminiConfigArgs :
        /\ call' = [call EXCEPT ![c] = Some([op |-> "gemini_config", args |-> a])]
        /\ response' = [response EXCEPT ![c] = Append(@, TextResponse(GeminiConfigText(a.api_key)))]
    /\ pc' = [pc EXCEPT ![c] = "done"]
    /\ UNCHANGED <<env, procs, child, attempts, output, result>>

\* gemini_prompt up to a successful spawn() in run_gemini_command.
GeminiPromptSpawn(c, reqs) ==
    /\ pc[c] = "idle"
    /\ \E a \in reqs :
        /\ call' = [call EXCEPT ![c] = Some([op |-> "gemini_prompt", args |-> a])]
        /\ procs' = Append(procs,
                NewChild(BuildArgs(a.prompt, a.model, a.max_tokens, a.temperature), env))
    /\ child' = [child EXCEPT ![c] = Len(procs) + 1]
    /\ attempts' = [attempts EXCEPT ![c] = @ + 1]
    /\ pc' = [pc EXCEPT ![c] = "spawned"]
    /\ UNCHANGED <<env, output, result, response>>

GeminiPromptSpawnFailRetry(c, reqs) ==
    /\ pc[c] = "idle"
    /\ \E a \in reqs, e \in SpawnOsErrors :
        LET res == Err(<<SpawnFailedMsg, e>>) IN
        /\ call' = [call EXCEPT ![c] = Some([op |-> "gemini_prompt", args |-> a])]
        /\ result' = [result EXCEPT ![c] = Some(res)]
        /\ response' = [response EXCEPT ![c] = Append(@, map_err(res))]
    /\ attempts' = [attempts EXCEPT ![c] = @ + 2]
    /\ pc' = [pc EXCEPT ![c] = "done"]
    /\ UNCHANGED <<env, procs, child, output>>

\* gemini_prompt when spawn() fails: `?` returns the error with its context.
GeminiPromptSpawnFail(c, reqs) ==
    /\ pc[c] = "idle"
    /\ \E a \in reqs, e \in SpawnOsErrors :
        LET res == Err(<<SpawnFailedMsg, e>>) IN
        /\ call' = [call EXCEPT ![c] = Some([op |-> "gemini_prompt", args |-> a])]
        /\ result' = [result EXCEPT ![c] = Some(res)]
        /\ response' = [response EXCEPT ![c] = Append(@, map_err(res))]
    /\ attempts' = [attempts EXCEPT ![c] = @ + 1]
    /\ pc' = [pc EXCEPT ![c] = "done"]
    /\ UNCHANGED <<env, procs, child, output>>

\* child.stdin.take() and drop, then the handler suspends in wait_with_output.
CloseStdin(c) ==
    /\ pc[c] = "spawned"
    /\ procs' = [procs EXCEPT ![child[c]] = DropStdin(@)]
    /\ pc' = [pc EXCEPT ![c] = "waiting"]
    /\ UNCHANGED <<env, call, child, attempts, output, result, response>>

\* The external tool (a black box) writes its output and terminates.
ToolExit(p, runs) ==
    /\ procs[p].exit = None
    /\ \E r \in runs :
        procs' = [procs EXCEPT ![p] =
                    [@ EXCEPT !.exit = Some(r.code), !.stdout = r.stdout, !.stderr = r.stderr]]
    /\ UNCHANGED <<env, pc, call, child, attempts, output, result, response>>

WaitOutputAny(c) ==
    LET p == CHOOSE q \in 1..Len(procs) : IsSome(procs[q].exit)
    IN  [code |-> procs[p].exit[1], stdout |-> procs[p].stdout, stderr |-> procs[p].stderr]

\* The Output wait_with_output yields for the child the call holds.
WaitOutput(c) ==
    LET p == child[c]
    IN  [code |-> procs[p].exit[1], stdout |-> procs[p].stdout, stderr |-> procs[p].stderr]

WaitDoneSuccessOnly(c) ==
    /\ pc[c] = "waiting"
    /\ procs[child[c]].exit = Some(0)
    /\ LET out == WaitOutput(c)
           res == CommandResult(out)
       IN  /\ output' = [output EXCEPT ![c] = Some(out)]
           /\ result' = [result EXCEPT ![c] = Some(res)]
           /\ response' = [response EXCEPT ![c] = Append(@, map_err(res))]
    /\ pc' = [pc EXCEPT ![c] = "done"]
    /\ UNCHANGED <<env, call, procs, child, attempts>>

\* wait_with_output completes; the rest of run_gemini_command and map_err.
WaitDone(c) ==
    /\ pc[c] = "waiting"
    /\ IsSome(procs[child[c]].exit)
    /\ LET out == WaitOutput(c)
           res == CommandResult(out)
       IN  /\ output' = [output EXCEPT ![c] = Some(out)]
           /\ result' = [result EXCEPT ![c] = Some(res)]
           /\ response' = [response EXCEPT ![c] = Append(@, map_err(res))]
    /\ pc' = [pc EXCEPT ![c] = "done"]
    /\ UNCHANGED <<env, call, procs, child, attempts>>

\* wait_with_output fails: `?` returns the error with its context.
WaitFail(c) ==
    /\ pc[c] = "waiting"
    /\ \E e \in WaitOsErrors :
        LET res == Err(<<WaitFailedMsg, e>>) IN
        /\ result' = [result EXCEPT ![c] = Some(res)]
        /\ response' = [response EXCEPT ![c] = Append(@, map_err(res))]
    /\ pc' = [pc EXCEPT ![c] = "done"]
    /\ UNCHANGED <<env, call, procs, child, attempts, output>>

\* ---------------------------------------------------- specifications ----
Step(c, reqs) ==
    \/ GeminiConfig(c)
    \/ GeminiPromptSpawn(c, reqs)
    \/ GeminiPromptSpawnFail(c, reqs)
    \/ CloseStdin(c)
    \/ WaitDone(c)
    \/ WaitFail(c)

\* Concurrent calls against the stand-in tool.
InitConc == Init({None})

Next ==
    \/ \E c \in Calls : Step(c, ConcPromptArgs)
    \/ \E p \in 1..Len(procs) : ToolExit(p, FakeRuns)

Spec == InitConc /\ [][Next]_vars

\* One call, every request field and every run of the tool within MaxBytes.
InitOne == Init(OptionOf(Projects))

NextOne ==
    \/ Step(1, AllPromptArgs)
    \/ \E p \in 1..Len(procs) : ToolExit(p, AllRuns)

SpecOne == InitOne /\ [][NextOne]_vars

\* The runtime keeps polling a handler that can proceed.  Nothing obliges the
\* tool to terminate, a spawn to happen or a wait to fail.
Fairness == \A c \in Calls : WF_vars(CloseStdin(c)) /\ WF_vars(WaitDone(c))

NextFair ==
    \/ \E c \in Calls : Step(c, FairPromptArgs)
    \/ \E p \in 1..Len(procs) : ToolExit(p, FakeRuns)

FairSpec == InitConc /\ [][NextFair]_vars /\ Fairness

\* ------------------------------------------------------------ helpers ----
\* The request a call was dispatched with.
ArgsOf(c) == call[c][1].args

IsPrompt(c) == IsSome(call[c]) /\ call[c][1].op = "gemini_prompt"

IsConfig(c) == IsSome(call[c]) /\ call[c][1].op = "gemini_config"

\* spawn() failed for the call.
SpawnFailed(c) == IsPrompt(c) /\ attempts[c] > 0 /\ child[c] = 0

\* wait_with_output failed for the call.
WaitFailed(c) == pc[c] = "done" /\ child[c] # 0 /\ output[c] = None

\* wait_with_output returned an Output whose exit code is in codes.
Exited(c, codes) == IsSome(output[c]) /\ output[c][1].code \in codes

\* t is s without its leading and trailing whitespace, stated without trim.
IsTrimOf(t, s) ==
    \E i \in 0..Len(s), j \in 0..Len(s) :
        /\ i + j <= Len(s)
        /\ t = SubSeq(s, i + 1, Len(s) - j)
        /\ \A k \in 1..i : is_whitespace(s[k])
        /\ \A k \in (Len(s) - j + 1)..Len(s) : is_whitespace(s[k])
        /\ t # <<>> => ~is_whitespace(t[1]) /\ ~is_whitespace(t[Len(t)])

\* ------------------------------------------------------------- claims ----
\* C1: the argument list handed to the tool is exactly ["--prompt", prompt]
\* when model is absent and ["--prompt", prompt, "--model", model] when it is
\* present, whatever max_tokens and temperature are.
C1_ArgsExact ==
    \A c \in Calls : child[c] # 0 =>
        LET a == ArgsOf(c) IN
        procs[child[c]].args =
            IF a.model = None
            THEN <<"--prompt", a.prompt>>
            ELSE <<"--prompt", a.prompt, "--model", a.model[1]>>

C1_Witness ==
    \E c \in Calls :
        /\ child[c] # 0
        /\ IsSome(ArgsOf(c).model)
        /\ IsSome(ArgsOf(c).max_tokens)
        /\ IsSome(ArgsOf(c).temperature)
        /\ Len(procs[child[c]].args) = 4

\* C2: when the wait returns exit code zero, the call's one response is a text
\* result equal to the child's stdout, decoded, without leading and trailing
\* whitespace, whatever the child wrote to stderr.
C2_TrimmedStdout ==
    \A c \in Calls : Exited(c, {0}) =>
        /\ Len(response[c]) = 1
        /\ response[c][1].kind = "text"
        /\ IsTrimOf(response[c][1].text, from_utf8_lossy(procs[child[c]].stdout))

C2_Witness ==
    \E c \in Calls :
        /\ Exited(c, {0})
        /\ procs[child[c]].stdout = <<"20", "61", "20">>
        /\ procs[child[c]].stderr # <<>>
        /\ response[c] = <<TextResponse(<<"a">>)>>

\* C3: when the wait returns a non-zero exit code, the call's one response is
\* an internal error whose message is the fixed prefix followed by the trimmed
\* stderr; it has no result text and the child's stdout is not used.
C3_ErrorWithStderr ==
    \A c \in Calls : Exited(c, ExitCodes \ {0}) =>
        /\ Len(response[c]) = 1
        /\ LET r == response[c][1] IN
            /\ r.kind = "error"
            /\ r.code = "internal_error"
            /\ "text" \notin DOMAIN r
            /\ SubSeq(r.message, 1, 1) = CommandFailedPrefix
            /\ IsTrimOf(Tail(r.message), from_utf8_lossy(procs[child[c]].stderr))
        /\ ~result[c][1].ok

C3_Witness ==
    \E c \in Calls :
        /\ Exited(c, {1})
        /\ procs[child[c]].stdout = <<"61">>
        /\ procs[child[c]].stderr = <<"20", "FF", "20">>
        /\ response[c] = <<internal_error(<<"Gemini command failed: ", "U+FFFD">>)>>

\* C4 as stated: a spawn failure and a non-zero exit give errors of distinct kinds.
C4_DistinctKind ==
    \A c, d \in Calls :
        SpawnFailed(c) /\ Exited(d, ExitCodes \ {0}) =>
            response[c][1].code # response[d][1].code

\* C4 (amended): a spawn failure and a non-zero exit both give an internal
\* error without data, the same kind; only their messages differ: the spawn
\* failure's is the fixed context text, the non-zero exit's starts with the
\* command-failed prefix.
C4_SameKindDistinctMessage ==
    \A c, d \in Calls :
        SpawnFailed(c) /\ Exited(d, ExitCodes \ {0}) =>
            LET rc == response[c][1]
                rd == response[d][1]
            IN  /\ rc.kind = "error" /\ rd.kind = "error"
                /\ rc.code = "internal_error" /\ rd.code = "internal_error"
                /\ rc.data = None /\ rd.data = None
                /\ rc.message = <<"Failed to spawn gemini command">>
                /\ Head(rd.message) = "Gemini command failed: "
                /\ rc.message # rd.message

C4_Witness ==
    \E c, d \in Calls :
        /\ SpawnFailed(c) /\ pc[c] = "done"
        /\ Exited(d, {1}) /\ pc[d] = "done"
        /\ response[d][1].message = <<"Gemini command failed: ">>

\* C5: the response to a failed spawn carries the OS-level cause of the failure.
C5_CarriesOsCause ==
    \A c \in Calls :
        SpawnFailed(c) =>
            Contains(response[c][1].message, result[c][1].chain[2])

\* C6: gemini_config answers a call that supplies an api_key with one fixed
\* text that names GOOGLE_API_KEY and does not contain the key, the same for
\* any two keys; without a key it answers the fixed guidance naming
\* GOOGLE_API_KEY and --model; it spawns nothing and runs no command.
C6_ConfigFixedText ==
    /\ \A c \in Calls : IsConfig(c) =>
        /\ Len(response[c]) = 1
        /\ response[c][1].kind = "text"
        /\ Contains(response[c][1].text, <<"GOOGLE_API_KEY">>)
        /\ IsSome(ArgsOf(c).api_key) => ~Contains(response[c][1].text, ArgsOf(c).api_key)
        /\ ArgsOf(c).api_key = None => Contains(response[c][1].text, <<"--model">>)
        /\ attempts[c] = 0 /\ child[c] = 0 /\ result[c] = None /\ output[c] = None
    /\ \A c, d \in Calls :
        IsConfig(c) /\ IsConfig(d) /\ IsSome(ArgsOf(c).api_key) /\ IsSome(ArgsOf(d).api_key) =>
            response[c] = response[d]
    /\ \A p \in 1..Len(procs) : \E c \in Calls : IsPrompt(c) /\ child[c] = p

C6_Witness ==
    \E c, d \in Calls :
        /\ IsConfig(c) /\ IsConfig(d)
        /\ ArgsOf(c).api_key = Some("secret")
        /\ ArgsOf(d).api_key = Some("hunter2")
        /\ pc[c] = "done" /\ pc[d] = "done"

\* C7: every call holds a child of its own, spawned with the arguments built
\* from its own request, and what the call gets back (the Output, hence the
\* text or the error) is that child's, never another call's.
C7_NoCrossTalk ==
    /\ \A c, d \in Calls : c # d /\ child[c] # 0 => child[c] # child[d]
    /\ \A c \in Calls : child[c] # 0 =>
        LET p == procs[child[c]] IN
        /\ p.args[2] = ArgsOf(c).prompt
        /\ IsSome(output[c]) =>
            /\ IsSome(p.exit)
            /\ output[c][1] = [code |-> p.exit[1], stdout |-> p.stdout, stderr |-> p.stderr]
            /\ response[c] = <<map_err(CommandResult(output[c][1]))>>

C7_Witness ==
    \E c, d \in Calls :
        /\ child[c] # 0 /\ child[d] # 0
        /\ ArgsOf(c).prompt # ArgsOf(d).prompt
        /\ IsSome(output[c]) /\ IsSome(output[d])
        /\ response[c] # response[d]

\* C8 as stated: every handled call, gemini_prompt or gemini_config, made
\* exactly one subprocess invocation.
C8_OneInvocationPerCall ==
    \A c \in Calls : pc[c] = "done" => attempts[c] = 1

\* C8 (amended): a gemini_prompt call calls spawn exactly once, never again
\* after a failure, and holds one process exactly when that spawn succeeded;
\* a gemini_config call spawns nothing; the processes spawned are as many as
\* the calls holding one, and no two calls hold the same process.
C8_OneSpawnPerPrompt ==
    /\ \A c \in Calls :
        /\ IsPrompt(c) => attempts[c] = 1
        /\ ~IsPrompt(c) => attempts[c] = 0 /\ child[c] = 0
        /\ IsSome(output[c]) => child[c] # 0 /\ pc[c] = "done"
    /\ Len(procs) = Cardinality({c \in Calls : child[c] # 0})
    /\ \A c, d \in Calls : c # d /\ child[c] # 0 => child[c] # child[d]

C8_Witness ==
    \E c, d \in Calls :
        /\ IsConfig(c) /\ pc[c] = "done"
        /\ IsPrompt(d) /\ pc[d] = "done" /\ IsSome(output[d])
        /\ Len(procs) = 1

\* C9: a call that is awaiting its child, or has awaited it, has closed the
\* child's stdin; stdin is open only between spawn and the close; nothing is
\* ever written to it.
C9_StdinClosedBeforeWait ==
    /\ \A c \in Calls :
        /\ pc[c] = "waiting" \/ (pc[c] = "done" /\ child[c] # 0) => procs[child[c]].stdin = "closed"
        /\ pc[c] = "spawned" => procs[child[c]].stdin = "open"
    /\ \A p \in 1..Len(procs) : procs[p].stdin_data = <<>>

C9_Witness ==
    \E c \in Calls :
        /\ pc[c] = "waiting"
        /\ procs[child[c]].stdin = "closed"
        /\ procs[child[c]].exit = None

\* C10: a call has one response exactly when it is done, a text or an internal
\* error and not both; a failed spawn, a failed wait and a non-zero exit each
\* end in an error; a call that held a child returns only after the child
\* terminated or the wait failed; and a call whose spawn failed or whose child
\* has terminated eventually returns.
C10_Responded(c) ==
    /\ Len(response[c]) = (IF pc[c] = "done" THEN 1 ELSE 0)
    /\ pc[c] = "done" =>
        LET r == response[c][1] IN
        /\ r.kind \in {"text", "error"}
        /\ r.kind = "text" <=> "text" \in DOMAIN r
        /\ r.kind = "error" <=> "message" \in DOMAIN r
        /\ SpawnFailed(c) \/ WaitFailed(c) \/ Exited(c, ExitCodes \ {0}) => r.kind = "error"
        /\ child[c] # 0 => WaitFailed(c) \/ IsSome(procs[child[c]].exit)
    /\ attempts[c] > 0 /\ child[c] = 0 => pc[c] = "done"

C10_EveryCallReturnsOnce ==
    /\ [](\A c \in Calls : C10_Responded(c))
    /\ \A c \in Calls :
        (child[c] # 0 /\ IsSome(procs[child[c]].exit)) ~> (pc[c] = "done")

C10_Witness ==
    \E d, e \in Calls :
        /\ WaitFailed(d) /\ procs[child[d]].exit = None
        /\ Exited(e, {1}) /\ pc[e] = "done" /\ response[e][1].kind = "error"
====
